---- MODULE Spec2Model ----
(***************************************************************************)
(* A model of src/main.rs: the libgit2 "log" example that walks commit     *)
(* history, filters commits by parent count and path relevance, windows    *)
(* the survivors with skip/take and prints one short-stat line per         *)
(* non-merge commit.                                                       *)
(*                                                                         *)
(* The repository, the revision walker, the diff and the pathspec matcher  *)
(* are collaborators (git2): what they answer is drawn nondeterministically*)
(* at the moment the code asks.                                            *)
(***************************************************************************)
EXTENDS FiniteSets, Integers, Sequences, TLC

\* ------------------------------------------------------------------ bounds
\* Walker items examined by a run of the windowing specification.
MaxWalk == 4
\* Walker items examined by a run of the path-relevance specification.
MaxPathWalk == 2
\* Walker items examined by a run of the parent-bounds specification.
MaxBoundsWalk == 1
\* Largest --skip value drawn.
MaxSkip == 2
\* Largest --max-count value drawn.
MaxCount == 2
\* Largest number of parents of a commit.
MaxParents == 2
\* Largest explicit --min-parents / --max-parents value drawn.
MaxFlag == 3
\* Commits of the repository in the range-resolution specification.
MaxCommits == 4

\* !0 as usize (the "no limit" of take); only compared with 0 and decremented.
UsizeMax == 2147483647

VARIABLES
    args,         \* the parsed command line (struct Args)
    horizon,      \* how many walker items a run may examine (model bound)
    walk,         \* the items the revwalk has yielded so far, with the closure's verdict
    walker_done,  \* the revwalk has returned None
    take_n,       \* Take's remaining count
    skip_n,       \* Skip's remaining count
    nth_n,        \* items Skip's first next() still has to discard
    pc,           \* position of run()/main()
    reached,      \* indices (into walk) of the items handed to the print loop
    stdout,       \* the lines printed
    result,       \* what run() returned: "running", "ok", "err"
    exit_code,    \* the process's exit status (-1 while running)
    min_res,      \* <<>> or <<v>>: value returned by a call of Args::min_parents
    max_res,      \* <<>> or <<o>>: value returned by a call of Args::max_parents
    repo,         \* the commit graph: commit -> set of parents
    arg_commit,   \* the revision expressions (args.arg_commit)
    argi,         \* index of the expression the setup loop is at
    pushed,       \* revwalk start points
    hidden,       \* revwalk hidden points
    base,         \* the merge base found for the current range (set of 0 or 1)
    yielded,      \* commits the revwalk has yielded (range specification)
    rpc           \* position of the setup loop

runVars == <<horizon, walk, walker_done, take_n, skip_n, nth_n, pc, reached,
             stdout, result, exit_code>>
fnVars == <<min_res, max_res>>
rangeVars == <<repo, arg_commit, argi, pushed, hidden, base, yielded, rpc>>
vars == <<args, runVars, fnVars, rangeVars>>

\* ------------------------------------------------------------------ Option
\* Option<T> as a set with at most one element.
None == {}
Some(x) == {x}
unwrap_or(o, d) == IF o = {} THEN d ELSE CHOOSE x \in o : TRUE

\* ------------------------------------------------------------------ Args
BoolFlags == [flag_merges : BOOLEAN, flag_no_merges : BOOLEAN,
              flag_no_min_parents : BOOLEAN, flag_no_max_parents : BOOLEAN]

OptUpTo(n) == {None} \cup {Some(k) : k \in 0..n}

MkArgs(merges, no_merges, no_min, no_max, minp, maxp, skip, count, patch, spec) ==
    [flag_merges |-> merges, flag_no_merges |-> no_merges,
     flag_no_min_parents |-> no_min, flag_no_max_parents |-> no_max,
     flag_min_parents |-> minp, flag_max_parents |-> maxp,
     flag_skip |-> skip, flag_max_count |-> count,
     flag_patch |-> patch, arg_spec |-> spec]

min_parents_nomerges(a) ==
    IF a.flag_no_min_parents THEN 0
    ELSE unwrap_or(a.flag_min_parents, IF a.flag_no_merges THEN 2 ELSE 0)

\* Args::min_parents
min_parents(a) ==
    IF a.flag_no_min_parents THEN 0
    ELSE unwrap_or(a.flag_min_parents, IF a.flag_merges THEN 2 ELSE 0)

\* Args::max_parents
max_parents(a) ==
    IF a.flag_no_max_parents THEN None
    ELSE IF a.flag_max_parents # None THEN a.flag_max_parents
    ELSE IF a.flag_no_merges THEN Some(1) ELSE None

\* ------------------------------------------------------------------ filter
DiffOutcome == {"delta", "same", "err"}

\* What the repository holds for the next id the revwalk yields, as far as the
\* closure looks at it.  With an empty pathspec no tree is read and no diff made.
CommitFacts(a) ==
    IF a.arg_spec = <<>>
    THEN {[kind |-> "commit", parents |-> np, root |-> "na", diffs |-> <<>>] :
             np \in 0..MaxParents}
    ELSE {[kind |-> "commit", parents |-> 0, root |-> r, diffs |-> <<>>] :
             r \in {"match", "nomatch", "tree_err"}}
         \cup
         UNION {{[kind |-> "commit", parents |-> np, root |-> "na", diffs |-> d] :
                    d \in [1..np -> DiffOutcome]} : np \in 1..MaxParents}

WalkErrFacts == [kind |-> "walk_err", parents |-> 0, root |-> "na", diffs |-> <<>>]
FindErrFacts == [kind |-> "find_err", parents |-> 0, root |-> "na", diffs |-> <<>>]

\* match_with_parent: Err when a tree or the diff fails, else Ok(deltas > 0)
match_with_parent(d) ==
    IF d = "err" THEN None ELSE Some(d = "delta")

any_parent_matches(c) ==
    \E i \in 1..c.parents : unwrap_or(match_with_parent(c.diffs[i]), FALSE)

\* commit.parents().all(|parent| match_with_parent(..).unwrap_or(false))
all_parents_match(c) ==
    \A i \in 1..c.parents : unwrap_or(match_with_parent(c.diffs[i]), FALSE)

below_min(a, parents) == parents < min_parents(a)

at_or_above_max_gt(a, parents) ==
    \E n \in max_parents(a) : parents > n

\* if let Some(n) = args.max_parents() { if parents >= n { return None } }
at_or_above_max(a, parents) ==
    \E n \in max_parents(a) : parents >= n

Verdict(res, checked) == [res |-> res, pathChecked |-> checked]

\* The filter_map closure on one walker item: "dropped" is None, "err" is
\* Some(Err(e)), "ok" is Some(Ok(commit)).  pathChecked records whether the
\* arg_spec branch was entered.
closure(a, c) ==
    IF c.kind # "commit" THEN Verdict("err", FALSE)
    ELSE IF below_min(a, c.parents) THEN Verdict("dropped", FALSE)
    ELSE IF at_or_above_max(a, c.parents) THEN Verdict("dropped", FALSE)
    ELSE IF a.arg_spec # <<>>
         THEN IF c.parents = 0
              THEN IF c.root = "tree_err" THEN Verdict("err", TRUE)
                   ELSE IF c.root = "nomatch" THEN Verdict("dropped", TRUE)
                   ELSE Verdict("ok", TRUE)
              ELSE IF all_parents_match(c) THEN Verdict("ok", TRUE)
                   ELSE Verdict("dropped", TRUE)
         ELSE Verdict("ok", FALSE)

Item(a, c) ==
    [kind |-> c.kind, parents |-> c.parents, root |-> c.root, diffs |-> c.diffs,
     res |-> closure(a, c).res, pathChecked |-> closure(a, c).pathChecked]

skip_init_zero(a) == 0

\* .skip(args.flag_skip.unwrap_or(0))
skip_init(a) == unwrap_or(a.flag_skip, 0)

take_init_plus(a) == unwrap_or(a.flag_max_count, UsizeMax - 1) + 1

\* .take(args.flag_max_count.unwrap_or(!0))
take_init(a) == unwrap_or(a.flag_max_count, UsizeMax)

skips_stats_root_only(a, c) == ~a.flag_patch \/ c.parents >= 1

\* if !args.flag_patch || commit.parents().len() > 1 { continue; }
skips_stats(a, c) == ~a.flag_patch \/ c.parents > 1

\* the tree the commit is diffed against
diff_base(c) == IF c.parents = 1 THEN "parent0" ELSE "empty"

StatLine(i, c) == [kind |-> "stat", commit |-> i, against |-> diff_base(c)]
ErrorLine == [kind |-> "error", commit |-> 0, against |-> "na"]

\* ------------------------------------------------------------------ Init
NoRange ==
    /\ repo = <<>>
    /\ arg_commit = <<>>
    /\ argi = 0
    /\ pushed = {}
    /\ hidden = {}
    /\ base = {}
    /\ yielded = <<>>
    /\ rpc = "off"

NoFn == min_res = <<>> /\ max_res = <<>>

RunStart(h) ==
    /\ horizon = h
    /\ walk = <<>>
    /\ walker_done = FALSE
    /\ take_n = take_init(args)
    /\ skip_n = skip_init(args)
    /\ nth_n = 0
    /\ pc = "for"
    /\ reached = <<>>
    /\ stdout = <<>>
    /\ result = "running"
    /\ exit_code = -1

\* Windowing runs: merges / no-merges, every skip and max-count, patch on and
\* off, no pathspec.
Init ==
    /\ args \in {MkArgs(m, nm, FALSE, FALSE, None, None, s, c, p, <<>>) :
                    m \in BOOLEAN, nm \in BOOLEAN, s \in OptUpTo(MaxSkip),
                    c \in OptUpTo(MaxCount), p \in BOOLEAN}
    /\ RunStart(MaxWalk)
    /\ NoFn
    /\ NoRange

\* ------------------------------------------------------------------ run()
\* for commit in revwalk: Take::next, then Skip::next
IterNext ==
    /\ pc = "for"
    /\ IF take_n = 0
       THEN /\ pc' = "ret"
            /\ result' = "ok"
            /\ UNCHANGED <<take_n, skip_n, nth_n>>
       ELSE /\ take_n' = take_n - 1
            /\ nth_n' = skip_n
            /\ skip_n' = 0
            /\ pc' = "filter"
            /\ UNCHANGED result
    /\ UNCHANGED <<args, horizon, walk, walker_done, reached, stdout, exit_code>>
    /\ UNCHANGED <<fnVars, rangeVars>>

\* FilterMap::next got `it` from the closure; Skip's nth discards or returns it.
FilterMapYield(it) ==
    /\ walk' = Append(walk, it)
    /\ IF it.res = "dropped"
       THEN UNCHANGED <<nth_n, pc, reached>>
       ELSE IF nth_n > 0
            THEN /\ nth_n' = nth_n - 1
                 /\ UNCHANGED <<pc, reached>>
            ELSE /\ pc' = "body"
                 /\ reached' = Append(reached, Len(walk) + 1)
                 /\ UNCHANGED nth_n
    /\ UNCHANGED <<args, horizon, walker_done, take_n, skip_n, stdout, result, exit_code>>
    /\ UNCHANGED <<fnVars, rangeVars>>

\* the revwalk is exhausted: the for loop ends and run() returns Ok(())
WalkerEnd ==
    /\ pc = "filter"
    /\ walker_done' = TRUE
    /\ pc' = "ret"
    /\ result' = "ok"
    /\ UNCHANGED <<args, horizon, walk, take_n, skip_n, nth_n, reached, stdout, exit_code>>
    /\ UNCHANGED <<fnVars, rangeVars>>

\* the revwalk yields Err: filter_try!(id)
WalkerErr ==
    /\ pc = "filter"
    /\ Len(walk) < horizon
    /\ FilterMapYield(Item(args, WalkErrFacts))

\* filter_try!(repo.find_commit(id)) fails
FindCommitErr ==
    /\ pc = "filter"
    /\ Len(walk) < horizon
    /\ FilterMapYield(Item(args, FindErrFacts))

\* the closure runs on a commit
FilterCommit ==
    /\ pc = "filter"
    /\ Len(walk) < horizon
    /\ \E c \in CommitFacts(args) : FilterMapYield(Item(args, c))

cur == walk[Len(walk)]

\* let commit = commit?;
BodyErr ==
    /\ pc = "body"
    /\ cur.res = "err"
    /\ result' = "err"
    /\ pc' = "ret"
    /\ UNCHANGED <<args, horizon, walk, walker_done, take_n, skip_n, nth_n, reached,
                   stdout, exit_code>>
    /\ UNCHANGED <<fnVars, rangeVars>>

\* continue
BodySkip ==
    /\ pc = "body"
    /\ cur.res = "ok"
    /\ skips_stats(args, cur)
    /\ pc' = "for"
    /\ UNCHANGED <<args, horizon, walk, walker_done, take_n, skip_n, nth_n, reached,
                   stdout, result, exit_code>>
    /\ UNCHANGED <<fnVars, rangeVars>>

\* parent, trees, diff and stats all succeed: println!
BodyStatOk ==
    /\ pc = "body"
    /\ cur.res = "ok"
    /\ ~skips_stats(args, cur)
    /\ stdout' = Append(stdout, StatLine(Len(walk), cur))
    /\ pc' = "for"
    /\ UNCHANGED <<args, horizon, walk, walker_done, take_n, skip_n, nth_n, reached,
                   result, exit_code>>
    /\ UNCHANGED <<fnVars, rangeVars>>

\* commit.parent(0)?, parent.tree()?, commit.tree()?, diff_tree_to_tree(..)? or
\* diff.stats()? fails
BodyStatErr ==
    /\ pc = "body"
    /\ cur.res = "ok"
    /\ ~skips_stats(args, cur)
    /\ result' = "err"
    /\ pc' = "ret"
    /\ UNCHANGED <<args, horizon, walk, walker_done, take_n, skip_n, nth_n, reached,
                   stdout, exit_code>>
    /\ UNCHANGED <<fnVars, rangeVars>>

\* main: match run(&args) { Ok(()) => {}, Err(e) => println!("error: {}", e) }
\* and main returns, so the process exits with status 0.
main ==
    /\ pc = "ret"
    /\ stdout' = IF result = "err" THEN Append(stdout, ErrorLine) ELSE stdout
    /\ exit_code' = 0
    /\ pc' = "exit"
    /\ UNCHANGED <<args, horizon, walk, walker_done, take_n, skip_n, nth_n, reached,
                   result>>
    /\ UNCHANGED <<fnVars, rangeVars>>

Next ==
    \/ IterNext
    \/ WalkerEnd
    \/ WalkerErr
    \/ FindCommitErr
    \/ FilterCommit
    \/ BodyErr
    \/ BodySkip
    \/ BodyStatOk
    \/ BodyStatErr
    \/ main

Spec == Init /\ [][Next]_vars

\* ------------------------------------------------------------------ other runs
\* Path-relevance runs: merges / no-merges, with and without a pathspec.
InitPath ==
    /\ args \in {MkArgs(m, nm, FALSE, FALSE, None, None, None, None, TRUE, sp) :
                    m \in BOOLEAN, nm \in BOOLEAN, sp \in {<<>>, <<"p">>}}
    /\ RunStart(MaxPathWalk)
    /\ NoFn
    /\ NoRange

SpecPath == InitPath /\ [][Next]_vars

AllParentFlags ==
    {MkArgs(b.flag_merges, b.flag_no_merges, b.flag_no_min_parents,
            b.flag_no_max_parents, mn, mx, None, None, TRUE, <<>>) :
        b \in BoolFlags, mn \in OptUpTo(MaxFlag), mx \in OptUpTo(MaxFlag)}

\* Parent-bounds runs: every combination of the six parent flags, with and
\* without a pathspec.
InitBounds ==
    /\ args \in {[a EXCEPT !.arg_spec = sp] : a \in AllParentFlags, sp \in {<<>>, <<"p">>}}
    /\ RunStart(MaxBoundsWalk)
    /\ NoFn
    /\ NoRange

SpecBounds == InitBounds /\ [][Next]_vars

\* ------------------------------------------------------------------ Args calls
InitArgs ==
    /\ args \in AllParentFlags
    /\ RunStart(0)
    /\ NoFn
    /\ NoRange

CallMinParents ==
    /\ min_res = <<>>
    /\ min_res' = <<min_parents(args)>>
    /\ UNCHANGED <<args, runVars, max_res, rangeVars>>

CallMaxParents ==
    /\ max_res = <<>>
    /\ max_res' = <<max_parents(args)>>
    /\ UNCHANGED <<args, runVars, min_res, rangeVars>>

NextArgs ==
    \/ CallMinParents
    \/ CallMaxParents

SpecArgs == InitArgs /\ [][NextArgs]_vars

\* ------------------------------------------------------------------ revwalk setup
Commits == 1..MaxCommits

\* HEAD
head == MaxCommits

\* Commit graphs: parents have smaller numbers than their children.
Repos ==
    {r \in [Commits -> SUBSET Commits] :
        \A c \in Commits : /\ \A p \in r[c] : p < c
                           /\ Cardinality(r[c]) <= MaxParents}

\* One revision expression: "^A", "A", "A..B" or "A...B".
Exprs ==
    {[mode |-> m, from |-> a, to |-> a] : m \in {"hide", "single"}, a \in Commits}
    \cup
    {[mode |-> m, from |-> a, to |-> b] :
        m \in {"range", "merge_base"}, a \in Commits, b \in Commits}

RECURSIVE Ancestors(_, _)
\* c and everything reachable from it along parent edges
Ancestors(r, c) == {c} \cup UNION {Ancestors(r, p) : p \in r[c]}

Reach(r, S) == UNION {Ancestors(r, c) : c \in S}

\* The best common ancestors of a and b; merge_base returns one of them, or
\* fails when there is none.
MergeBases(r, a, b) ==
    LET common == Ancestors(r, a) \cap Ancestors(r, b)
    IN  {m \in common : \A o \in common \ {m} : m \notin Ancestors(r, o)}

InitRange ==
    /\ args = MkArgs(FALSE, FALSE, FALSE, FALSE, None, None, None, None, FALSE, <<>>)
    /\ RunStart(0)
    /\ NoFn
    /\ repo \in Repos
    /\ arg_commit \in {<<>>} \cup {<<e>> : e \in Exprs}
    /\ argi = 1
    /\ pushed = {}
    /\ hidden = {}
    /\ base = {}
    /\ yielded = <<>>
    /\ rpc = "arg"

expr == arg_commit[argi]

\* if commit.starts_with('^') { revwalk.hide(..); continue; }
ArgHide ==
    /\ rpc = "arg"
    /\ argi <= Len(arg_commit)
    /\ expr.mode = "hide"
    /\ hidden' = hidden \cup {expr.from}
    /\ argi' = argi + 1
    /\ UNCHANGED <<args, runVars, fnVars, repo, arg_commit, pushed, base, yielded, rpc>>

\* RevparseMode::SINGLE: revwalk.push(from)
ArgSingle ==
    /\ rpc = "arg"
    /\ argi <= Len(arg_commit)
    /\ expr.mode = "single"
    /\ pushed' = pushed \cup {expr.from}
    /\ argi' = argi + 1
    /\ UNCHANGED <<args, runVars, fnVars, repo, arg_commit, hidden, base, yielded, rpc>>

\* a range: revwalk.push(to)
ArgRangePushTo ==
    /\ rpc = "arg"
    /\ argi <= Len(arg_commit)
    /\ expr.mode \in {"range", "merge_base"}
    /\ pushed' = pushed \cup {expr.to}
    /\ rpc' = IF expr.mode = "merge_base" THEN "merge_base" ELSE "hide_from"
    /\ UNCHANGED <<args, runVars, fnVars, repo, arg_commit, argi, hidden, base, yielded>>

\* RevparseMode::MERGE_BASE: revwalk.push(repo.merge_base(from, to)?)
ArgMergeBase ==
    /\ rpc = "merge_base"
    /\ \E b \in MergeBases(repo, expr.from, expr.to) :
          /\ base' = {b}
          /\ pushed' = pushed \cup {b}
    /\ rpc' = "hide_from"
    /\ UNCHANGED <<args, runVars, fnVars, repo, arg_commit, argi, hidden, yielded>>

\* repo.merge_base(from, to)? fails: run() returns the error
ArgNoMergeBase ==
    /\ rpc = "merge_base"
    /\ MergeBases(repo, expr.from, expr.to) = {}
    /\ rpc' = "err"
    /\ UNCHANGED <<args, runVars, fnVars, repo, arg_commit, argi, pushed, hidden, base,
                   yielded>>

\* revwalk.hide(from)
ArgHideFrom ==
    /\ rpc = "hide_from"
    /\ hidden' = hidden \cup {expr.from}
    /\ argi' = argi + 1
    /\ rpc' = "arg"
    /\ UNCHANGED <<args, runVars, fnVars, repo, arg_commit, pushed, base, yielded>>

\* if args.arg_commit.is_empty() { revwalk.push_head()?; }
PushHead ==
    /\ rpc = "arg"
    /\ argi > Len(arg_commit)
    /\ pushed' = IF arg_commit = <<>> THEN pushed \cup {head} ELSE pushed
    /\ rpc' = "walk"
    /\ UNCHANGED <<args, runVars, fnVars, repo, arg_commit, argi, hidden, base, yielded>>

Range(s) == {s[i] : i \in 1..Len(s)}

\* What the revwalk still has to yield: reachable from a start point, not
\* reachable from a hidden point, not yet yielded.
Pending == (Reach(repo, pushed) \ Reach(repo, hidden)) \ Range(yielded)

\* the revwalk yields its next commit (children before parents)
RevwalkNext ==
    /\ rpc = "walk"
    /\ Pending # {}
    /\ yielded' = Append(yielded, CHOOSE c \in Pending : \A o \in Pending : o <= c)
    /\ UNCHANGED <<args, runVars, fnVars, repo, arg_commit, argi, pushed, hidden, base,
                   rpc>>

\* the revwalk returns None
RevwalkEnd ==
    /\ rpc = "walk"
    /\ Pending = {}
    /\ rpc' = "done"
    /\ UNCHANGED <<args, runVars, fnVars, repo, arg_commit, argi, pushed, hidden, base,
                   yielded>>

NextRange ==
    \/ ArgHide
    \/ ArgSingle
    \/ ArgRangePushTo
    \/ ArgMergeBase
    \/ ArgNoMergeBase
    \/ ArgHideFrom
    \/ PushHead
    \/ RevwalkNext
    \/ RevwalkEnd

SpecRange == InitRange /\ [][NextRange]_vars

\* ------------------------------------------------------------------ properties
Min(a, b) == IF a < b THEN a ELSE b

Indices(s) == [i \in 1..Len(s) |-> i]

Front(s) == [i \in 1..(Len(s) - 1) |-> s[i]]

Returned == pc \in {"ret", "exit"}

StatLines == SelectSeq(stdout, LAMBDA l : l.kind = "stat")

ErrorLines == SelectSeq(stdout, LAMBDA l : l.kind = "error")

\* the parent-count bounds as the claims state them
WithinBounds(it) ==
    /\ min_parents(args) <= it.parents
    /\ max_parents(args) = None \/ \A n \in max_parents(args) : it.parents < n

C2_ResolvedBounds ==
    /\ min_res # <<>> =>
          min_res[1] = (IF args.flag_no_min_parents THEN 0
                        ELSE IF args.flag_min_parents # None
                             THEN CHOOSE n \in args.flag_min_parents : TRUE
                        ELSE IF args.flag_merges THEN 2
                        ELSE 0)
    /\ max_res # <<>> =>
          max_res[1] = (IF args.flag_no_max_parents THEN None
                        ELSE IF args.flag_max_parents # None THEN args.flag_max_parents
                        ELSE IF args.flag_no_merges THEN Some(1)
                        ELSE None)

\* Both functions were called with --merges --no-merges and nothing explicit.
C2_Witness ==
    /\ args.flag_merges /\ args.flag_no_merges
    /\ ~args.flag_no_min_parents /\ ~args.flag_no_max_parents
    /\ args.flag_min_parents = None /\ args.flag_max_parents = None
    /\ min_res = <<2>>
    /\ max_res = <<Some(1)>>

\* the walker has yielded (a prefix of) R3, R2, R1 and nothing else
LinearHistory ==
    /\ Len(walk) <= 3
    /\ walker_done => Len(walk) = 3
    /\ \A i \in 1..Len(walk) :
          /\ walk[i].kind = "commit"
          /\ walk[i].parents = (IF i = 3 THEN 0 ELSE 1)

\* C3: on the linear history R1 <- R2 <- R3, --patch --no-merges --max-count 1
\* prints exactly one stats line, that of R3 against R2.
C3_NoMergesHead ==
    ( /\ args = MkArgs(FALSE, TRUE, FALSE, FALSE, None, None, None, Some(1), TRUE, <<>>)
      /\ LinearHistory
      /\ pc = "exit"
      /\ result = "ok" )
    => stdout = <<[kind |-> "stat", commit |-> 1, against |-> "parent0"]>>

\* C4: under a non-empty pathspec a commit with parents that is within the
\* parent bounds is kept iff every per-parent diff has a delta, a failing
\* per-parent diff counting as no delta (the commit is dropped, no error is
\* passed on); under an empty pathspec every commit within the bounds is kept.
C4_PathRelevance ==
    \A i \in 1..Len(walk) :
        (walk[i].kind = "commit" /\ WithinBounds(walk[i])) =>
            /\ (args.arg_spec # <<>> /\ walk[i].parents >= 1) =>
                  /\ walk[i].res \in {"ok", "dropped"}
                  /\ walk[i].res = "ok" <=>
                         \A k \in 1..walk[i].parents : walk[i].diffs[k] = "delta"
            /\ args.arg_spec = <<>> => walk[i].res = "ok"

\* A merge that differs from its first parent only was dropped, a merge whose
\* second diff failed was dropped, and the run went on to return Ok.
C4_Witness ==
    /\ args.arg_spec # <<>>
    /\ Len(walk) = 2
    /\ walk[1].parents = 2 /\ walk[1].diffs = <<"delta", "same">>
    /\ walk[1].res = "dropped"
    /\ walk[2].parents = 2 /\ walk[2].diffs = <<"delta", "err">>
    /\ walk[2].res = "dropped"
    /\ result = "ok"

\* F: the walked commits the two predicates keep, in walker order
Survivors == SelectSeq(Indices(walk), LAMBDA i : walk[i].res = "ok")

NoFailure ==
    /\ result # "err"
    /\ \A i \in 1..Len(walk) : walk[i].res # "err"

\* f[s .. s+m), m = None meaning no limit
Window(f, s, m) ==
    LET rest == IF Len(f) > s THEN Len(f) - s ELSE 0
        n == IF m = None THEN rest ELSE Min(rest, CHOOSE x \in m : TRUE)
    IN  [k \in 1..n |-> f[s + k]]

\* C5: when no collaborator call fails, the commits that reach the print loop
\* are F[s .. s+m) with s = skip (absent: 0) and m = max_count (absent: no
\* limit), in walker order; the run stops pulling only when the walker is
\* exhausted or the window is full.
C5_Windowing ==
    (Returned /\ NoFailure) =>
        /\ reached = Window(Survivors, unwrap_or(args.flag_skip, 0), args.flag_max_count)
        /\ walker_done \/ args.flag_max_count = Some(Len(reached))

\* skip=2, max_count=1: of four walked commits one is rejected by the
\* predicates, and the third survivor alone reaches the print loop.
C5_Witness ==
    /\ args.flag_skip = Some(2)
    /\ args.flag_max_count = Some(1)
    /\ Len(walk) = 4
    /\ walk[2].res = "dropped"
    /\ Survivors = <<1, 3, 4>>
    /\ reached = <<4>>
    /\ pc = "exit"
    /\ result = "ok"

\* the items the print loop is through with
Completed == IF pc = "body" \/ result = "err" THEN Front(reached) ELSE reached

ExpectedStats ==
    LET printing == SelectSeq(Completed,
                              LAMBDA i : walk[i].res = "ok" /\ walk[i].parents <= 1)
    IN  IF args.flag_patch
        THEN [k \in 1..Len(printing) |->
                 [kind |-> "stat", commit |-> printing[k],
                  against |-> IF walk[printing[k]].parents = 1 THEN "parent0"
                              ELSE "empty"]]
        ELSE <<>>

\* C6: in patch mode the stats lines are exactly one line per commit of the
\* window with at most one parent that the print loop is through with, in
\* window order, each against the single parent's tree or the empty tree; a
\* commit with more parents prints nothing; without patch mode no stats line
\* is printed.
C6_StatsEmission == StatLines = ExpectedStats

\* A window of a one-parent commit, a merge and a root printed two lines.
C6_Witness ==
    /\ args.flag_patch
    /\ pc = "exit"
    /\ result = "ok"
    /\ Len(reached) = 3
    /\ walk[reached[1]].parents = 1
    /\ walk[reached[2]].parents = 2
    /\ walk[reached[3]].parents = 0
    /\ Len(StatLines) = 2

\* C7: once a walker item failed (the walker's id, the commit lookup or the
\* root tree), nothing more is pulled and run() returns the error.
C7_AbortOnFailure ==
    \A i \in 1..Len(walk) :
        walk[i].res = "err" =>
            /\ i = Len(walk)
            /\ pc \in {"body", "ret", "exit"}
            /\ Returned => result = "err"

\* C8: when run() returns an error exactly one "error:" line is printed and the
\* exit status is non-zero; when it succeeds no such line is printed and the
\* exit status is zero.
C8_FailureStatus ==
    pc = "exit" =>
        /\ result = "err" => (Len(ErrorLines) = 1 /\ exit_code # 0)
        /\ result = "ok" => (Len(ErrorLines) = 0 /\ exit_code = 0)

\* C9: for the single expression A...B the walker is given B and the merge
\* base as start points and A as hidden, and yields the symmetric difference
\* of the two ancestries; for A..B no merge base is computed and the walker
\* yields what is reachable from B but not from A.
C9_RangeResolution ==
    (rpc = "done" /\ Len(arg_commit) = 1) =>
        LET e == arg_commit[1]
            A == Ancestors(repo, e.from)
            B == Ancestors(repo, e.to)
        IN  /\ e.mode = "merge_base" =>
                  /\ pushed = {e.to} \cup base
                  /\ base # {}
                  /\ hidden = {e.from}
                  /\ Range(yielded) = (A \ B) \cup (B \ A)
            /\ e.mode = "range" =>
                  /\ base = {}
                  /\ Range(yielded) = B \ A

\* C10: skip and max_count count surviving commits: at most max_count items
\* reach the print loop and at most max_count stats lines are printed; with
\* max_count = 0 nothing is pulled from the walker and nothing is printed.
C10_CountsSurvivors ==
    /\ \A m \in args.flag_max_count :
          /\ Len(reached) <= m
          /\ Len(StatLines) <= m
    /\ args.flag_max_count = Some(0) => (walk = <<>> /\ stdout = <<>>)

\* With --patch --max-count 1 a merge took the only slot: nothing was printed
\* and the walker was left unexhausted.
C10_Witness ==
    /\ args.flag_patch
    /\ args.flag_max_count = Some(1)
    /\ pc = "exit"
    /\ result = "ok"
    /\ Len(reached) = 1
    /\ walk[reached[1]].parents = 2
    /\ stdout = <<>>
    /\ ~walker_done

====
